---- MODULE Spec2Model ----
(***************************************************************************)
(* Booking engine of the reservation service                               *)
(* (src/backend/microservicio_reservas/app.py).                            *)
(*                                                                         *)
(* State: the bookings table, the wall clock and the ORM session of every  *)
(* request that is between two database round trips.  Each handler is an   *)
(* operator that computes, from a snapshot of the table and the request,   *)
(* the response and the table it leaves, in the order of the source; the   *)
(* actions apply it.                                                       *)
(***************************************************************************)
EXTENDS Integers, Sequences, FiniteSets, TLC

\* ---- bounds of the model ------------------------------------------------
MaxBookings == 2       \* rows the table may hold
MaxClock == 2          \* days the clock may show

\* ---- values -------------------------------------------------------------
\* An absent JSON field (Python None) and a falsy one ('' or 0) take the same
\* branch of every `if x:` and `all([...])` of the handlers; they are written
\* "" for strings, << >> for 'HH:MM' strings and 0 for integers.
NoStr == ""
NoTime == << >>
NoInt == 0

Workers == {1, 2}                \* request handlers running side by side

\* verified token claims (user_id, role)
Tokens ==
  { [user_id |-> 1, role |-> "Usuario"],
    [user_id |-> 2, role |-> "Administrador"] }

Courts == {1, 2}
\* 'YYYY-MM-DD' strings; day 1 of the clock is 2025-06-09 and the last day a
\* Python date can hold, date.max = 9999-12-31, is day 2912649
DateStrings == {"2025-06-09", "2025-06-10", "2025-06-11", "9999-12-31"}
BadDateString == "2025-13-40"
\* 'HH:MM' strings, as <<hour, minute>>
TimeStrings == { <<9, 0>>, <<9, 30>>, <<10, 0>> }
BadTimeString == <<24, 0>>
Statuses == {"Confirmada", "Cancelada", "Completada"}
BadStatus == "Pendiente"

\* what the Court Registry call produces
\*   active / inactive : 2xx with is_active true / false
\*   missing           : a non-2xx status (raise_for_status raises HTTPError)
\*   unreachable       : ConnectionError or Timeout
\*   none              : the handler made no call
Replies == {"active", "inactive", "missing", "unreachable"}
NoReply == "none"

VARIABLES
  bookings,   \* the committed bookings table: a sequence, bookings[i].id = i
  now,        \* the clock read by date.today() and datetime.utcnow(), in days
  sess        \* sess[w]: the ORM session of worker w between two round trips

vars == <<bookings, now, sess>>

\* ---- pure helpers -------------------------------------------------------

\* datetime.strptime(s, '%H:%M') raises ValueError unless this holds
TimeParses(s) == Len(s) = 2 /\ s[1] \in 0..23 /\ s[2] \in 0..59

\* datetime.strptime(s, '%H:%M').time(), as minutes since midnight
ParseTime(s) == s[1] * 60 + s[2]

\* datetime.strptime(s, '%Y-%m-%d') raises ValueError unless this holds
DateParses(s) == s \in DateStrings

\* datetime.strptime(s, '%Y-%m-%d').date(), as a day ordinal
ParseDate(s) ==
  CASE s = "2025-06-09" -> 1
    [] s = "2025-06-10" -> 2
    [] s = "2025-06-11" -> 3
    [] s = "9999-12-31" -> 2912649
    [] OTHER -> 0

\* `booking_date < date.today()` (lines 76 and 182), one day off
MutIsPast(booking_date, today) == booking_date < today - 1

\* `booking_date < date.today()` (lines 76 and 182)
IsPast(booking_date, today) == booking_date < today

\* get_court_info: the JSON of the court, or None on any RequestException
get_court_info(reply) ==
  CASE reply = "active" -> [none |-> FALSE, is_active |-> TRUE]
    [] reply = "inactive" -> [none |-> FALSE, is_active |-> FALSE]
    [] OTHER -> [none |-> TRUE, is_active |-> FALSE]

\* the court check without its is_active half
MutCourtRejected(court_info) == court_info.none

\* `not court_info or not court_info.get('is_active')`
CourtRejected(court_info) == court_info.none \/ ~court_info.is_active

\* the conflict scan of create_booking with closed intervals
MutCreateConflicts(db, court_id, booking_date, start_time, end_time) ==
  { i \in 1..Len(db) :
      /\ db[i].court_id = court_id
      /\ db[i].booking_date = booking_date
      /\ db[i].status = "Confirmada"
      /\ db[i].start_time <= end_time
      /\ db[i].end_time >= start_time }

\* the filter of the conflict scan of create_booking
CreateConflicts(db, court_id, booking_date, start_time, end_time) ==
  { i \in 1..Len(db) :
      /\ db[i].court_id = court_id
      /\ db[i].booking_date = booking_date
      /\ db[i].status = "Confirmada"
      /\ db[i].start_time < end_time
      /\ db[i].end_time > start_time }

\* the conflict scan of update_booking without `Booking.id != booking_id`
MutUpdateConflictsWithSelf(db, booking_id, booking) ==
  { i \in 1..Len(db) :
      /\ db[i].court_id = booking.court_id
      /\ db[i].booking_date = booking.booking_date
      /\ db[i].status = "Confirmada"
      /\ db[i].start_time < booking.end_time
      /\ db[i].end_time > booking.start_time }

\* the conflict scan of update_booking with half of the overlap test
MutUpdateConflicts(db, booking_id, booking) ==
  { i \in 1..Len(db) :
      /\ db[i].court_id = booking.court_id
      /\ db[i].booking_date = booking.booking_date
      /\ db[i].status = "Confirmada"
      /\ db[i].id # booking_id
      /\ db[i].start_time < booking.end_time }

\* the filter of the conflict scan of update_booking
UpdateConflicts(db, booking_id, booking) ==
  { i \in 1..Len(db) :
      /\ db[i].court_id = booking.court_id
      /\ db[i].booking_date = booking.booking_date
      /\ db[i].status = "Confirmada"
      /\ db[i].id # booking_id
      /\ db[i].start_time < booking.end_time
      /\ db[i].end_time > booking.start_time }

\* Booking.query.get(booking_id) finds a row
Found(db, booking_id) == booking_id \in 1..Len(db)

\* the ownership gate without the Administrator's pass
MutDenied(tok, booking) == booking.user_id # tok.user_id

\* the ownership gate shared by get, update and delete
Denied(tok, booking) ==
  tok.role # "Administrador" /\ booking.user_id # tok.user_id

\* date.isoformat(): the 'YYYY-MM-DD' string of a day ordinal
FormatDate(d) ==
  CASE d = 1 -> "2025-06-09"
    [] d = 2 -> "2025-06-10"
    [] d = 3 -> "2025-06-11"
    [] d = 2912649 -> "9999-12-31"
    [] OTHER -> NoStr

\* time.isoformat(): 'HH:MM:SS', as <<hour, minute, second>>
FormatTime(t) == << t \div 60, t % 60, 0 >>

\* Booking.to_dict
to_dict(booking) ==
  [ id |-> booking.id,
    user_id |-> booking.user_id,
    court_id |-> booking.court_id,
    booking_date |-> FormatDate(booking.booking_date),
    start_time |-> FormatTime(booking.start_time),
    end_time |-> FormatTime(booking.end_time),
    status |-> booking.status,
    created_at |-> booking.created_at,
    updated_at |-> booking.updated_at ]

\* the caller's rows without the cancelled ones
MutOwnedBy(db, user_id) ==
  SelectSeq(db, LAMBDA b : b.user_id = user_id /\ b.status # "Cancelada")

\* Booking.query.filter_by(user_id=user_id_from_token).all()
OwnedBy(db, user_id) == SelectSeq(db, LAMBDA b : b.user_id = user_id)

\* ---- the gates of core/security.py ---------------------------------------
\* An Authorization header is: whether it is present, how many parts
\* split(" ") gives, and the second part, a JWT: empty or not, what
\* jwt.decode makes of it, the day its exp claim names (0: none) and its
\* user_id and role claims.

NoClaims == [user_id |-> NoInt, role |-> NoStr]

JWT(kind, exp, user_id, role) ==
  [empty |-> FALSE, kind |-> kind, exp |-> exp, user_id |-> user_id, role |-> role]

NoHeader == [present |-> FALSE, parts |-> 0, token |-> JWT("garbage", 0, NoInt, NoStr)]

\* 'Bearer <token>'
Bearer(token) == [present |-> TRUE, parts |-> 2, token |-> token]

\* 'Bearer': the scheme word alone
SchemeOnly == [present |-> TRUE, parts |-> 1, token |-> JWT("garbage", 0, NoInt, NoStr)]

\* 'Bearer ': the scheme word, a space and nothing
EmptyToken ==
  [present |-> TRUE, parts |-> 2,
   token |-> [JWT("garbage", 0, NoInt, NoStr) EXCEPT !.empty = TRUE]]

Headers ==
  { NoHeader, SchemeOnly, EmptyToken,
    Bearer(JWT("garbage", 0, NoInt, NoStr)),
    Bearer(JWT("bad_signature", 3, 1, "Administrador")),
    Bearer(JWT("good", 1, 1, "Usuario")),
    Bearer(JWT("good", 3, 1, "Usuario")),
    Bearer(JWT("good", 0, 2, "Administrador")) }

\* jwt.decode raises ExpiredSignatureError: exp <= now
Expired(token, clock) == token.exp # 0 /\ token.exp <= clock

\* token_required, lines 8-34: code 0 when the handler is called, with the
\* claims it is given; 500 is the IndexError of line 17, raised outside the
\* try and answered by Flask.
token_required(headers, clock) ==
  IF ~headers.present
  THEN [code |-> 401, msg |-> "token_missing", tok |-> NoClaims]
  ELSE IF headers.parts < 2
  THEN [code |-> 500, msg |-> "index_error", tok |-> NoClaims]
  ELSE IF headers.token.empty
  THEN [code |-> 401, msg |-> "token_missing", tok |-> NoClaims]
  ELSE IF headers.token.kind # "good"
  THEN [code |-> 401, msg |-> "token_invalid", tok |-> NoClaims]
  ELSE IF Expired(headers.token, clock)
  THEN [code |-> 401, msg |-> "token_expired", tok |-> NoClaims]
  ELSE [code |-> 0, msg |-> "ok",
        tok |-> [user_id |-> headers.token.user_id, role |-> headers.token.role]]

\* permission_required, lines 54-120, for a caller whose permissions in the
\* Access Control Store do (listed) or do not include the one required: code
\* 0 when the handler is called.  The lookup is a placeholder, has_permission
\* is False whatever the store holds.
permission_required(headers, clock, listed) ==
  LET g == token_required(headers, clock)
      has_permission == FALSE
  IN IF g.code # 0 THEN [code |-> g.code, msg |-> g.msg]
     ELSE IF g.tok.user_id = NoInt
     THEN [code |-> 401, msg |-> "no_user_id"]
     ELSE IF g.tok.role = "Administrador" THEN [code |-> 0, msg |-> "ok"]
     ELSE IF ~has_permission THEN [code |-> 403, msg |-> "forbidden"]
     ELSE [code |-> 0, msg |-> "ok"]

\* ---- requests -----------------------------------------------------------

\* JSON bodies of POST /bookings over the given courts, dates and times
CreateBodiesOf(courts, dates, starts, ends) ==
  [ user_id : {2},
    court_id : courts,
    booking_date : dates,
    start_time : starts,
    end_time : ends ]

\* JSON bodies of PUT /bookings/<id>
UpdateBodiesOf(statuses, courts, dates, starts, ends) ==
  [ status : statuses,
    booking_date : dates,
    start_time : starts,
    end_time : ends,
    court_id : courts ]

\* ---- POST /bookings -----------------------------------------------------

\* the Booking built with the owner the request body names
MutNewBooking(tok, body) ==
  [ id |-> 0,
    user_id |-> body.user_id,
    court_id |-> body.court_id,
    booking_date |-> ParseDate(body.booking_date),
    start_time |-> ParseTime(body.start_time),
    end_time |-> ParseTime(body.end_time),
    status |-> "Confirmada",
    created_at |-> 0,
    updated_at |-> 0 ]

\* The Booking built at lines 103-110; id and both timestamps are set when
\* the row is inserted.
NewBooking(tok, body) ==
  [ id |-> 0,
    user_id |-> tok.user_id,
    court_id |-> body.court_id,
    booking_date |-> ParseDate(body.booking_date),
    start_time |-> ParseTime(body.start_time),
    end_time |-> ParseTime(body.end_time),
    status |-> "Confirmada",
    created_at |-> 0,
    updated_at |-> 0 ]

\* the checks of create_booking with the Court Registry called before the
\* date and the interval are looked at
MutCreateChecks(db, today, tok, body, reply) ==
  IF \/ body.court_id = NoInt \/ body.booking_date = NoStr
     \/ body.start_time = NoTime \/ body.end_time = NoTime
  THEN [code |-> 400, msg |-> "missing_fields", reply |-> NoReply]
  ELSE IF \/ ~DateParses(body.booking_date)
          \/ ~TimeParses(body.start_time) \/ ~TimeParses(body.end_time)
  THEN [code |-> 400, msg |-> "bad_format", reply |-> NoReply]
  ELSE IF CourtRejected(get_court_info(reply))
  THEN [code |-> 404, msg |-> "court", reply |-> reply]
  ELSE IF IsPast(ParseDate(body.booking_date), today)
  THEN [code |-> 400, msg |-> "past_date", reply |-> reply]
  ELSE IF ParseTime(body.start_time) >= ParseTime(body.end_time)
  THEN [code |-> 400, msg |-> "bad_range", reply |-> reply]
  ELSE IF CreateConflicts(db, body.court_id, ParseDate(body.booking_date),
                          ParseTime(body.start_time),
                          ParseTime(body.end_time)) # {}
  THEN [code |-> 409, msg |-> "conflict", reply |-> reply]
  ELSE [code |-> 0, msg |-> "ok", reply |-> reply]

\* create_booking up to the conflict scan (lines 60-100), on the table db read
\* by the scan: code 0 when every check passed and the insert is next.
create_checks(db, today, tok, body, reply) ==
  IF \/ body.court_id = NoInt \/ body.booking_date = NoStr
     \/ body.start_time = NoTime \/ body.end_time = NoTime
  THEN [code |-> 400, msg |-> "missing_fields", reply |-> NoReply]
  ELSE IF \/ ~DateParses(body.booking_date)
          \/ ~TimeParses(body.start_time) \/ ~TimeParses(body.end_time)
  THEN [code |-> 400, msg |-> "bad_format", reply |-> NoReply]
  ELSE IF IsPast(ParseDate(body.booking_date), today)
  THEN [code |-> 400, msg |-> "past_date", reply |-> NoReply]
  ELSE IF ParseTime(body.start_time) >= ParseTime(body.end_time)
  THEN [code |-> 400, msg |-> "bad_range", reply |-> NoReply]
  ELSE IF CourtRejected(get_court_info(reply))
  THEN [code |-> 404, msg |-> "court", reply |-> reply]
  ELSE IF CreateConflicts(db, body.court_id, ParseDate(body.booking_date),
                          ParseTime(body.start_time),
                          ParseTime(body.end_time)) # {}
  THEN [code |-> 409, msg |-> "conflict", reply |-> reply]
  ELSE [code |-> 0, msg |-> "ok", reply |-> reply]

\* db.session.add(new_booking); db.session.commit() (lines 111-112): the row
\* gets the next id and the column defaults created_at = updated_at = utcnow
Insert(db, booking, clock) ==
  Append(db, [booking EXCEPT !.id = Len(db) + 1,
                             !.created_at = clock,
                             !.updated_at = clock])

\* ---- PUT /bookings/<id> --------------------------------------------------

\* the assignments of update_booking with the status of a cancelled booking
\* left as it is
MutAssignedOneWay(booking, body) ==
  [ booking EXCEPT
      !.status = IF body.status # NoStr /\ @ # "Cancelada" THEN body.status ELSE @,
      !.booking_date =
        IF body.booking_date # NoStr THEN ParseDate(body.booking_date) ELSE @,
      !.start_time =
        IF body.start_time # NoTime THEN ParseTime(body.start_time) ELSE @,
      !.end_time =
        IF body.end_time # NoTime THEN ParseTime(body.end_time) ELSE @,
      !.court_id = IF body.court_id # NoInt THEN body.court_id ELSE @ ]

\* The in-memory booking after the assignments of lines 178-200, each made
\* only when its field is supplied.
Assigned(booking, body) ==
  [ booking EXCEPT
      !.status = IF body.status # NoStr THEN body.status ELSE @,
      !.booking_date =
        IF body.booking_date # NoStr THEN ParseDate(body.booking_date) ELSE @,
      !.start_time =
        IF body.start_time # NoTime THEN ParseTime(body.start_time) ELSE @,
      !.end_time =
        IF body.end_time # NoTime THEN ParseTime(body.end_time) ELSE @,
      !.court_id = IF body.court_id # NoInt THEN body.court_id ELSE @ ]

\* `if new_date_str or new_start_time_str or new_end_time_str or new_court_id`
SlotSupplied(body) ==
  \/ body.booking_date # NoStr \/ body.start_time # NoTime
  \/ body.end_time # NoTime \/ body.court_id # NoInt

\* the checks of update_booking with the past-date check for every role
MutUpdateChecks(db, today, tok, booking, body, reply) ==
  IF body.status # NoStr /\ body.status \notin Statuses
  THEN [code |-> 400, msg |-> "bad_status", reply |-> NoReply]
  ELSE IF body.booking_date # NoStr /\ ~DateParses(body.booking_date)
  THEN [code |-> 400, msg |-> "bad_format", reply |-> NoReply]
  ELSE IF /\ body.booking_date # NoStr
          /\ IsPast(ParseDate(body.booking_date), today)
  THEN [code |-> 400, msg |-> "past_date", reply |-> NoReply]
  ELSE IF \/ body.start_time # NoTime /\ ~TimeParses(body.start_time)
          \/ body.end_time # NoTime /\ ~TimeParses(body.end_time)
  THEN [code |-> 400, msg |-> "bad_format", reply |-> NoReply]
  ELSE IF body.court_id # NoInt /\ CourtRejected(get_court_info(reply))
  THEN [code |-> 404, msg |-> "court", reply |-> reply]
  ELSE LET called == IF body.court_id # NoInt THEN reply ELSE NoReply
           b == Assigned(booking, body)
       IN IF SlotSupplied(body) /\ b.start_time >= b.end_time
          THEN [code |-> 400, msg |-> "bad_range", reply |-> called]
          ELSE IF SlotSupplied(body) /\ UpdateConflicts(db, booking.id, b) # {}
          THEN [code |-> 409, msg |-> "conflict", reply |-> called]
          ELSE [code |-> 0, msg |-> "ok", reply |-> called]

\* update_booking from the body to the conflict scan (lines 165-219), for the
\* booking loaded at line 158 and the table db read by the scan: code 0 when
\* every check passed and the commit is next.
update_checks(db, today, tok, booking, body, reply) ==
  IF body.status # NoStr /\ body.status \notin Statuses
  THEN [code |-> 400, msg |-> "bad_status", reply |-> NoReply]
  ELSE IF body.booking_date # NoStr /\ ~DateParses(body.booking_date)
  THEN [code |-> 400, msg |-> "bad_format", reply |-> NoReply]
  ELSE IF /\ body.booking_date # NoStr
          /\ IsPast(ParseDate(body.booking_date), today)
          /\ tok.role # "Administrador"
  THEN [code |-> 400, msg |-> "past_date", reply |-> NoReply]
  ELSE IF \/ body.start_time # NoTime /\ ~TimeParses(body.start_time)
          \/ body.end_time # NoTime /\ ~TimeParses(body.end_time)
  THEN [code |-> 400, msg |-> "bad_format", reply |-> NoReply]
  ELSE IF body.court_id # NoInt /\ CourtRejected(get_court_info(reply))
  THEN [code |-> 404, msg |-> "court", reply |-> reply]
  ELSE LET called == IF body.court_id # NoInt THEN reply ELSE NoReply
           b == Assigned(booking, body)
       IN IF SlotSupplied(body) /\ b.start_time >= b.end_time
          THEN [code |-> 400, msg |-> "bad_range", reply |-> called]
          ELSE IF SlotSupplied(body) /\ UpdateConflicts(db, booking.id, b) # {}
          THEN [code |-> 409, msg |-> "conflict", reply |-> called]
          ELSE [code |-> 0, msg |-> "ok", reply |-> called]

\* a commit whose UPDATE stamps created_at as well as updated_at
MutFlushStampsCreated(db, loaded, booking) ==
  [ db EXCEPT ![loaded.id] =
      [ @ EXCEPT
          !.status = IF booking.status # loaded.status THEN booking.status ELSE @,
          !.booking_date = IF booking.booking_date # loaded.booking_date
                           THEN booking.booking_date ELSE @,
          !.start_time = IF booking.start_time # loaded.start_time
                         THEN booking.start_time ELSE @,
          !.end_time = IF booking.end_time # loaded.end_time
                       THEN booking.end_time ELSE @,
          !.court_id = IF booking.court_id # loaded.court_id
                       THEN booking.court_id ELSE @,
          !.created_at = booking.updated_at,
          !.updated_at = IF booking.updated_at # loaded.updated_at
                         THEN booking.updated_at ELSE @ ] ]

\* db.session.commit() of a modified booking: the UPDATE sets the columns
\* whose value differs from the one loaded, on the row as it is now.
Flush(db, loaded, booking) ==
  [ db EXCEPT ![loaded.id] =
      [ @ EXCEPT
          !.status = IF booking.status # loaded.status THEN booking.status ELSE @,
          !.booking_date = IF booking.booking_date # loaded.booking_date
                           THEN booking.booking_date ELSE @,
          !.start_time = IF booking.start_time # loaded.start_time
                         THEN booking.start_time ELSE @,
          !.end_time = IF booking.end_time # loaded.end_time
                       THEN booking.end_time ELSE @,
          !.court_id = IF booking.court_id # loaded.court_id
                       THEN booking.court_id ELSE @,
          !.updated_at = IF booking.updated_at # loaded.updated_at
                         THEN booking.updated_at ELSE @ ] ]

\* lines 221-222 of update_booking
update_commit(db, loaded, body, clock) ==
  Flush(db, loaded, [Assigned(loaded, body) EXCEPT !.updated_at = clock])

\* the hard delete left commented out at lines 252-253
MutDeleteCommit(db, loaded, clock) ==
  SelectSeq(db, LAMBDA b : b.id # loaded.id)

\* lines 247-249 of delete_booking
delete_commit(db, loaded, clock) ==
  Flush(db, loaded, [loaded EXCEPT !.status = "Cancelada", !.updated_at = clock])

\* ---- the handlers, as functions of the table and the request ------------
\* Each gives the status code, which message, the Court Registry reply it
\* received (NoReply: it made no call) and the table it leaves committed.

Result(code, msg, reply, id, db) ==
  [code |-> code, msg |-> msg, reply |-> reply, id |-> id, db |-> db]

\* POST /bookings, lines 52-116
create_booking(db, clock, tok, body, reply) ==
  LET r == create_checks(db, clock, tok, body, reply) IN
    IF r.code # 0
    THEN Result(r.code, r.msg, r.reply, 0, db)
    ELSE Result(201, "ok", r.reply, Len(db) + 1,
                Insert(db, NewBooking(tok, body), clock))

\* GET /bookings that also purges the cancelled rows
MutGetBookings(db, tok) ==
  LET rows == IF tok.role = "Administrador" THEN db
              ELSE OwnedBy(db, tok.user_id)
  IN [ code |-> 200,
       output |-> [k \in 1..Len(rows) |-> to_dict(rows[k])],
       db |-> SelectSeq(db, LAMBDA b : b.status # "Cancelada") ]

\* GET /bookings, lines 118-133: the list of dictionaries it answers with
get_bookings(db, tok) ==
  LET rows == IF tok.role = "Administrador" THEN db
              ELSE OwnedBy(db, tok.user_id)
  IN [ code |-> 200,
       output |-> [k \in 1..Len(rows) |-> to_dict(rows[k])],
       db |-> db ]

\* GET /bookings/<id>, lines 135-149
get_booking_by_id(db, tok, booking_id) ==
  IF ~Found(db, booking_id)
  THEN Result(404, "not_found", NoReply, 0, db)
  ELSE IF Denied(tok, db[booking_id])
  THEN Result(403, "forbidden", NoReply, 0, db)
  ELSE Result(200, "ok", NoReply, booking_id, db)

\* PUT /bookings/<id> that keeps a status assigned before a failing check
MutUpdateBooking(db, clock, tok, booking_id, body, reply) ==
  IF ~Found(db, booking_id)
  THEN Result(404, "not_found", NoReply, 0, db)
  ELSE IF Denied(tok, db[booking_id])
  THEN Result(403, "forbidden", NoReply, 0, db)
  ELSE LET r == update_checks(db, clock, tok, db[booking_id], body, reply) IN
         IF r.code # 0
         THEN Result(r.code, r.msg, r.reply, 0,
                     IF body.status \in Statuses
                     THEN [db EXCEPT ![booking_id].status = body.status]
                     ELSE db)
         ELSE Result(200, "ok", r.reply, booking_id,
                     update_commit(db, db[booking_id], body, clock))

\* PUT /bookings/<id>, lines 151-229
update_booking(db, clock, tok, booking_id, body, reply) ==
  IF ~Found(db, booking_id)
  THEN Result(404, "not_found", NoReply, 0, db)
  ELSE IF Denied(tok, db[booking_id])
  THEN Result(403, "forbidden", NoReply, 0, db)
  ELSE LET r == update_checks(db, clock, tok, db[booking_id], body, reply) IN
         IF r.code # 0
         THEN Result(r.code, r.msg, r.reply, 0, db)
         ELSE Result(200, "ok", r.reply, booking_id,
                     update_commit(db, db[booking_id], body, clock))

\* PUT /bookings/<id> when db.session.commit() of line 222 succeeds
\* (committed) or raises: lines 227-229 roll back and answer 500
update_booking_or_rollback(db, clock, tok, booking_id, body, reply, committed) ==
  LET r == update_booking(db, clock, tok, booking_id, body, reply) IN
    IF r.code = 200 /\ ~committed
    THEN Result(500, "error", r.reply, 0, db)
    ELSE r

\* DELETE /bookings/<id> refusing a booking that is already cancelled
MutDeleteBooking(db, clock, tok, booking_id) ==
  IF ~Found(db, booking_id)
  THEN Result(404, "not_found", NoReply, 0, db)
  ELSE IF Denied(tok, db[booking_id])
  THEN Result(403, "forbidden", NoReply, 0, db)
  ELSE IF db[booking_id].status = "Cancelada"
  THEN Result(409, "conflict", NoReply, 0, db)
  ELSE Result(200, "ok", NoReply, booking_id,
              delete_commit(db, db[booking_id], clock))

\* DELETE /bookings/<id>, lines 231-257
delete_booking(db, clock, tok, booking_id) ==
  IF ~Found(db, booking_id)
  THEN Result(404, "not_found", NoReply, 0, db)
  ELSE IF Denied(tok, db[booking_id])
  THEN Result(403, "forbidden", NoReply, 0, db)
  ELSE Result(200, "ok", NoReply, booking_id,
              delete_commit(db, db[booking_id], clock))

\* A route under @token_required: the handler runs, with the claims the gate
\* hands it, only when the gate passes, and its answer goes out; otherwise
\* the gate's answer goes out and the table stays.
protected(headers, clock, db, answer) ==
  LET g == token_required(headers, clock) IN
    IF g.code # 0 THEN Result(g.code, g.msg, NoReply, 0, db)
    ELSE answer

\* ---- GET /courts/<id>/availability ---------------------------------------

operating_start_hour == 480      \* time(8, 0)
operating_end_hour == 1320       \* time(22, 0)

\* time.isoformat(timespec='minutes'): 'HH:MM', as <<hour, minute>>
FormatMinutes(t) == << t \div 60, t % 60 >>

\* a slot half as wide
MutSlotEnd(current_slot_start) == (current_slot_start + 30) % 1440

\* (datetime.combine(current_date, current_slot_start) + timedelta(hours=1))
\* .time(): the time of day one hour later
SlotEnd(current_slot_start) == (current_slot_start + 60) % 1440

\* the query of lines 298-302 without its status filter
MutOccupiedSlotsAnyStatus(db, court_id, current_date) ==
  { i \in 1..Len(db) :
      /\ db[i].court_id = court_id
      /\ db[i].booking_date = current_date }

\* the query of lines 298-302 without its date filter
MutOccupiedSlots(db, court_id, current_date) ==
  { i \in 1..Len(db) :
      /\ db[i].court_id = court_id
      /\ db[i].status = "Confirmada" }

\* the query of lines 298-302: the Confirmed bookings of the court and date
OccupiedSlots(db, court_id, current_date) ==
  { i \in 1..Len(db) :
      /\ db[i].court_id = court_id
      /\ db[i].booking_date = current_date
      /\ db[i].status = "Confirmada" }

\* the overlap test with closed intervals
MutIsOccupied(db, occupied_slots, current_slot_start, current_slot_end) ==
  \E i \in occupied_slots :
    /\ current_slot_start <= db[i].end_time
    /\ current_slot_end >= db[i].start_time

\* the loop of lines 312-318
IsOccupied(db, occupied_slots, current_slot_start, current_slot_end) ==
  \E i \in occupied_slots :
    /\ current_slot_start < db[i].end_time
    /\ current_slot_end > db[i].start_time

\* the inner while loop, lines 308-325, from current_slot_start on
RECURSIVE DailySlots(_, _, _)
DailySlots(db, occupied_slots, current_slot_start) ==
  IF current_slot_start < operating_end_hour
  THEN LET current_slot_end == SlotEnd(current_slot_start) IN
         << [ start_time |-> FormatMinutes(current_slot_start),
              end_time |-> FormatMinutes(current_slot_end),
              is_available |-> ~IsOccupied(db, occupied_slots,
                                           current_slot_start, current_slot_end) ] >>
         \o DailySlots(db, occupied_slots, current_slot_end)
  ELSE << >>

\* The outer while loop, lines 296-328, from current_date on, with the
\* dictionary filled so far.  `current_date += timedelta(days=1)` raises
\* OverflowError on date.max.
RECURSIVE DayLoop(_, _, _, _, _)
DayLoop(db, court_id, current_date, end_date, availability) ==
  IF current_date <= end_date
  THEN LET filled == availability @@
                     ( FormatDate(current_date) :>
                         DailySlots(db, OccupiedSlots(db, court_id, current_date),
                                    operating_start_hour) )
       IN IF current_date = ParseDate("9999-12-31")
          THEN [raised |-> TRUE, availability |-> filled]
          ELSE DayLoop(db, court_id, current_date + 1, end_date, filled)
  ELSE [raised |-> FALSE, availability |-> availability]

\* the answer of the availability handler
Answer(code, msg, availability, db) ==
  [code |-> code, msg |-> msg, availability |-> availability, db |-> db]

\* the empty dictionary
NoDays == [d \in {} |-> << >>]

\* GET /courts/<id>/availability, lines 259-330
get_court_availability(db, court_id, date_start_str, date_end_str, reply) ==
  IF date_start_str = NoStr \/ date_end_str = NoStr
  THEN Answer(400, "missing_fields", NoDays, db)
  ELSE IF ~DateParses(date_start_str) \/ ~DateParses(date_end_str)
  THEN Answer(400, "bad_format", NoDays, db)
  ELSE IF ParseDate(date_start_str) > ParseDate(date_end_str)
  THEN Answer(400, "bad_range", NoDays, db)
  ELSE IF CourtRejected(get_court_info(reply))
  THEN Answer(404, "court", NoDays, db)
  ELSE LET r == DayLoop(db, court_id, ParseDate(date_start_str),
                        ParseDate(date_end_str), NoDays)
       IN IF r.raised
          THEN Answer(500, "overflow", NoDays, db)
          ELSE Answer(200, "ok", r.availability, db)

\* ---- the service, one request at a time ---------------------------------

Idle == [pc |-> "idle"]

Init ==
  /\ bookings = << >>
  /\ now = 1
  /\ sess = [w \in Workers |-> Idle]

\* ids a request may name: every stored one and one that is not stored
BookingIds == 1..(Len(bookings) + 1)

CreateBooking(toks, bodies, replies) ==
  \E tok \in toks, body \in bodies, reply \in replies :
    LET r == create_booking(bookings, now, tok, body, reply) IN
      /\ Len(r.db) <= MaxBookings
      /\ bookings' = r.db
      /\ UNCHANGED <<now, sess>>

GetBookings(toks) ==
  \E tok \in toks :
    /\ bookings' = get_bookings(bookings, tok).db
    /\ UNCHANGED <<now, sess>>

GetBookingById(toks) ==
  \E tok \in toks, booking_id \in BookingIds :
    /\ bookings' = get_booking_by_id(bookings, tok, booking_id).db
    /\ UNCHANGED <<now, sess>>

UpdateBooking(toks, bodies, replies) ==
  \E tok \in toks, booking_id \in BookingIds :
    \E body \in IF Found(bookings, booking_id) THEN bodies
                ELSE {CHOOSE b \in bodies : TRUE},
       reply \in replies :
      /\ body.court_id = NoInt => reply = "active"
      /\ bookings' = update_booking(bookings, now, tok, booking_id, body, reply).db
      /\ UNCHANGED <<now, sess>>

\* PUT /bookings/<id> whose commit raises
UpdateRollsBack(toks, bodies, replies) ==
  \E tok \in toks, booking_id \in BookingIds, body \in bodies,
     reply \in replies :
    /\ bookings' = update_booking_or_rollback(bookings, now, tok, booking_id,
                                              body, reply, FALSE).db
    /\ UNCHANGED <<now, sess>>

\* DELETE /bookings/<id> from the Authorization header on
ProtectedDelete(headers) ==
  \E h \in headers, booking_id \in BookingIds :
    /\ bookings' = protected(h, now, bookings,
                     delete_booking(bookings, now, token_required(h, now).tok, booking_id)).db
    /\ UNCHANGED <<now, sess>>

GetCourtAvailability(courts, ranges, replies) ==
  \E court_id \in courts, range \in ranges, reply \in replies :
    /\ bookings' = get_court_availability(bookings, court_id, range[1],
                                          range[2], reply).db
    /\ UNCHANGED <<now, sess>>

DeleteBooking(toks) ==
  \E tok \in toks, booking_id \in BookingIds :
    /\ bookings' = delete_booking(bookings, now, tok, booking_id).db
    /\ UNCHANGED <<now, sess>>

\* ---- Spec: the slot logic, one request at a time ------------------------
\* One caller books, moves, re-labels and cancels on two courts of one day.
\* The three intervals 09:00-09:30, 09:30-10:00 and 09:00-10:00 touch, nest
\* and overlap; 09:30-09:30 is the empty one.

Owner == [user_id |-> 1, role |-> "Usuario"]
Admin == [user_id |-> 2, role |-> "Administrador"]

Starts == { <<9, 0>>, <<9, 30>> }
Ends == { <<9, 30>>, <<10, 0>> }
Today == "2025-06-09"
Tomorrow == "2025-06-10"

SlotCreates == CreateBodiesOf({NoInt} \cup Courts, {Today}, Starts, Ends)

SlotUpdates ==
  UpdateBodiesOf({NoStr} \cup Statuses, {NoInt} \cup Courts, {NoStr, Today},
                 {NoTime} \cup Starts, {NoTime} \cup Ends)

SlotReplies == {"active", "inactive"}

Next ==
  \/ CreateBooking({Owner}, SlotCreates, SlotReplies)
  \/ UpdateBooking({Owner}, SlotUpdates, SlotReplies)
  \/ DeleteBooking({Owner})
  \/ GetBookingById({Owner})

Spec == Init /\ [][Next]_vars

\* ---- ConcSpec: requests served side by side -----------------------------
\* Every handler is cut where it goes to the database: each SELECT and each
\* COMMIT is one step and sees what is committed at that moment (PostgreSQL's
\* default READ COMMITTED).  sess[w] is what worker w holds in between: the
\* Booking it built or loaded and the request it is serving.

\* lines 60-100: validation, court check and conflict scan
CreateScan(w, toks, bodies, replies) ==
  \E tok \in toks, body \in bodies, reply \in replies :
    /\ sess[w].pc = "idle"
    /\ sess' = [sess EXCEPT ![w] =
         IF create_checks(bookings, now, tok, body, reply).code = 0
         THEN [pc |-> "insert", booking |-> NewBooking(tok, body)]
         ELSE Idle]
    /\ UNCHANGED <<bookings, now>>

\* lines 102-113: add and commit
CreateInsert(w) ==
  /\ sess[w].pc = "insert"
  /\ Len(bookings) < MaxBookings
  /\ bookings' = Insert(bookings, sess[w].booking, now)
  /\ sess' = [sess EXCEPT ![w] = Idle]
  /\ UNCHANGED now

\* lines 158-163 of update_booking: load the row, 404 and 403
UpdateLoad(w, toks) ==
  \E tok \in toks, booking_id \in BookingIds :
    /\ sess[w].pc = "idle"
    /\ sess' = [sess EXCEPT ![w] =
         IF get_booking_by_id(bookings, tok, booking_id).code = 200
         THEN [pc |-> "loaded", tok |-> tok, booking |-> bookings[booking_id]]
         ELSE Idle]
    /\ UNCHANGED <<bookings, now>>

\* lines 165-219: assignments, court check and conflict scan
UpdateScan(w, bodies, replies) ==
  \E body \in bodies, reply \in replies :
    /\ sess[w].pc = "loaded"
    /\ sess' = [sess EXCEPT ![w] =
         IF update_checks(bookings, now, sess[w].tok, sess[w].booking,
                          body, reply).code = 0
         THEN [pc |-> "commit", booking |-> sess[w].booking, body |-> body]
         ELSE Idle]
    /\ UNCHANGED <<bookings, now>>

\* lines 221-222: commit
UpdateCommit(w) ==
  /\ sess[w].pc = "commit"
  /\ bookings' = update_commit(bookings, sess[w].booking, sess[w].body, now)
  /\ sess' = [sess EXCEPT ![w] = Idle]
  /\ UNCHANGED now

\* lines 238-243 of delete_booking: load the row, 404 and 403
DeleteLoad(w, toks) ==
  \E tok \in toks, booking_id \in BookingIds :
    /\ sess[w].pc = "idle"
    /\ sess' = [sess EXCEPT ![w] =
         IF get_booking_by_id(bookings, tok, booking_id).code = 200
         THEN [pc |-> "cancel", booking |-> bookings[booking_id]]
         ELSE Idle]
    /\ UNCHANGED <<bookings, now>>

\* lines 247-249: commit
DeleteCommit(w) ==
  /\ sess[w].pc = "cancel"
  /\ bookings' = delete_commit(bookings, sess[w].booking, now)
  /\ sess' = [sess EXCEPT ![w] = Idle]
  /\ UNCHANGED now

\* one court, one day, one caller; an update moves the start, the end or both
RaceCreates == CreateBodiesOf({1}, {Today}, Starts, Ends)
RaceUpdates ==
  UpdateBodiesOf({NoStr}, {NoInt}, {NoStr}, {NoTime} \cup Starts,
                 {NoTime} \cup Ends)

ConcNext ==
  \E w \in Workers :
    \/ CreateScan(w, {Owner}, RaceCreates, {"active"})
    \/ CreateInsert(w)
    \/ UpdateLoad(w, {Owner})
    \/ UpdateScan(w, RaceUpdates, {"active"})
    \/ UpdateCommit(w)
    \/ DeleteLoad(w, {Owner})
    \/ DeleteCommit(w)

ConcSpec == Init /\ [][ConcNext]_vars

\* ---- AccessSpec: who may do what, and when ------------------------------
\* Two callers (a plain user and an Administrator) on one court; requests may
\* lack a field, be malformed, name a past date or an empty interval, and the
\* Court Registry may answer anything or not at all.  The service comes up
\* with an empty table on any day the clock can show: on the first every date
\* a request can name is today or later, on the second one of them is past.

AccessCreates ==
  CreateBodiesOf({NoInt, 1}, {BadDateString, Today, Tomorrow},
                 Starts, {BadTimeString, <<9, 30>>})

AccessUpdates ==
  UpdateBodiesOf({NoStr, BadStatus, "Cancelada"}, {NoInt, 1},
                 {NoStr, BadDateString, Today, Tomorrow},
                 {NoTime, <<9, 30>>}, {NoTime, BadTimeString})

\* date_start and date_end of an availability request
DayAfter == "2025-06-11"
LastDay == "9999-12-31"
NearDates == {NoStr, BadDateString, Today, Tomorrow, DayAfter}
AvailRanges ==
  (NearDates \X NearDates) \cup { <<LastDay, LastDay>>, <<LastDay, Today>> }

AccessNext ==
  \/ CreateBooking(Tokens, AccessCreates, Replies)
  \/ UpdateBooking(Tokens, AccessUpdates, Replies)
  \/ DeleteBooking(Tokens)
  \/ GetBookingById(Tokens)
  \/ GetBookings(Tokens)
  \/ GetCourtAvailability(Courts, AvailRanges, Replies)
  \/ ProtectedDelete(Headers)
  \/ UpdateRollsBack(Tokens,
        UpdateBodiesOf({"Cancelada"}, {NoInt}, {NoStr, Tomorrow}, {NoTime}, {NoTime}),
        {"active"})

AccessInit ==
  /\ bookings = << >>
  /\ now \in 1..MaxClock
  /\ sess = [w \in Workers |-> Idle]

AccessSpec == AccessInit /\ [][AccessNext]_vars

\* ---- WaitSpec: requests that wait for the Court Registry -----------------
\* Every handler that calls get_court_info is cut at the call: before it the
\* local checks, after it the rest of the handler.  requests.get (line 28) is
\* given no timeout, so between the two the worker waits until the registry
\* answers; the registry is not obliged to.

\* POST /bookings up to the call of line 83; a request that fails a local
\* check is answered at once
CreateCall(w, toks, bodies) ==
  \E tok \in toks, body \in bodies :
    /\ sess[w].pc = "idle"
    /\ Len(bookings)
         + Cardinality({v \in Workers : sess[v].pc # "idle" /\ sess[v].kind = "create"})
         < MaxBookings
    /\ sess' = [sess EXCEPT ![w] =
         IF create_checks(bookings, now, tok, body, "active").reply = NoReply
         THEN Idle
         ELSE [pc |-> "calling", kind |-> "create", tok |-> tok, body |-> body]]
    /\ UNCHANGED <<bookings, now>>

\* PUT /bookings/<id> up to the call of line 197; a request that supplies no
\* court, or fails before the call, is served whole
UpdateCall(w, toks, bodies) ==
  \E tok \in toks, booking_id \in BookingIds, body \in bodies :
    /\ sess[w].pc = "idle"
    /\ IF /\ get_booking_by_id(bookings, tok, booking_id).code = 200
          /\ update_checks(bookings, now, tok, bookings[booking_id], body,
                           "active").reply # NoReply
       THEN /\ sess' = [sess EXCEPT ![w] =
                 [pc |-> "calling", kind |-> "update", tok |-> tok,
                  booking |-> bookings[booking_id], body |-> body]]
            /\ UNCHANGED bookings
       ELSE /\ bookings' = update_booking(bookings, now, tok, booking_id, body,
                                          "active").db
            /\ UNCHANGED sess
    /\ UNCHANGED now

\* GET /courts/<id>/availability up to the call of line 284
AvailabilityCall(w, courts, ranges) ==
  \E court_id \in courts, range \in ranges :
    /\ sess[w].pc = "idle"
    /\ sess' = [sess EXCEPT ![w] =
         IF get_court_availability(bookings, court_id, range[1], range[2],
                                   "missing").code = 400
         THEN Idle
         ELSE [pc |-> "calling", kind |-> "availability",
               court_id |-> court_id, range |-> range]]
    /\ UNCHANGED <<bookings, now>>

\* the Court Registry answers the call worker w is waiting on
RegistryAnswers(w, replies) ==
  \E reply \in replies :
    /\ sess[w].pc = "calling"
    /\ sess' = [sess EXCEPT ![w] =
                  [sess[w] EXCEPT !.pc = "answered"] @@ [reply |-> reply]]
    /\ UNCHANGED <<bookings, now>>

\* the handler of worker w from the return of get_court_info to its response
Finish(w) ==
  /\ sess[w].pc = "answered"
  /\ bookings' =
       CASE sess[w].kind = "create" ->
              create_booking(bookings, now, sess[w].tok, sess[w].body,
                             sess[w].reply).db
         [] sess[w].kind = "update" ->
              IF update_checks(bookings, now, sess[w].tok, sess[w].booking,
                               sess[w].body, sess[w].reply).code = 0
              THEN update_commit(bookings, sess[w].booking, sess[w].body, now)
              ELSE bookings
         [] OTHER ->
              get_court_availability(bookings, sess[w].court_id,
                                     sess[w].range[1], sess[w].range[2],
                                     sess[w].reply).db
  /\ sess' = [sess EXCEPT ![w] = Idle]
  /\ UNCHANGED now

WaitCreates == CreateBodiesOf({1}, {Today}, {<<9, 0>>}, {<<9, 30>>, BadTimeString})
WaitUpdates ==
  UpdateBodiesOf({NoStr, "Cancelada"}, {NoInt, 1}, {NoStr}, {NoTime}, {NoTime})
WaitRanges == { <<Today, Today>>, <<Tomorrow, Today>> }

WaitNext ==
  \E w \in Workers :
    \/ CreateCall(w, {Owner}, WaitCreates)
    \/ UpdateCall(w, {Owner}, WaitUpdates)
    \/ AvailabilityCall(w, {1}, WaitRanges)
    \/ RegistryAnswers(w, {"active", "missing"})
    \/ Finish(w)

\* A worker that has its answer runs to its response; nothing obliges the
\* registry to answer.
WaitSpec ==
  /\ Init
  /\ [][WaitNext]_vars
  /\ \A w \in Workers : WF_vars(Finish(w))

\* ---- AvailSpec: bookings and the availability grid -----------------------
\* One caller books, completes, re-confirms and cancels 09:30-10:30 and
\* 10:00-11:00 on court 1 today, and 09:30-10:30 on court 2 today and on
\* court 1 tomorrow: the first lies across the slots of 09:00 and 10:00, the
\* second is the slot of 10:00 and touches those of 09:00 and 11:00.
\* Availability is asked for either court over ranges of the three days
\* from today and over the last day of the calendar.

AvailCreates ==
  CreateBodiesOf({1}, {Today}, {<<9, 30>>}, {<<10, 30>>})
    \cup CreateBodiesOf({1}, {Today}, {<<10, 0>>}, {<<11, 0>>})
    \cup CreateBodiesOf({2}, {Today}, {<<9, 30>>}, {<<10, 30>>})
    \cup CreateBodiesOf({1}, {Tomorrow}, {<<9, 30>>}, {<<10, 30>>})

AvailUpdates ==
  UpdateBodiesOf({"Confirmada", "Completada"}, {NoInt}, {NoStr}, {NoTime}, {NoTime})

AvailNext ==
  \/ CreateBooking({Owner}, AvailCreates, {"active"})
  \/ UpdateBooking({Owner}, AvailUpdates, {"active"})
  \/ DeleteBooking({Owner})
  \/ GetBookings({Owner})
  \/ GetBookingById({Owner})
  \/ GetCourtAvailability(Courts, AvailRanges, Replies)

AvailSpec == Init /\ [][AvailNext]_vars

\* ---- MoveSpec: bookings moved between slots and courts -------------------
\* One caller books 09:00-09:30, 09:00-10:00 and 09:30-10:00 on either court
\* today, moves a booking's start, end or court, with or without cancelling
\* it in the same request, and cancels.

MoveCreates == CreateBodiesOf(Courts, {Today}, Starts, Ends)

MoveUpdates ==
  UpdateBodiesOf({NoStr, "Cancelada"}, {NoInt} \cup Courts, {NoStr, Today},
                 {NoTime} \cup Starts, {NoTime} \cup Ends)

MoveNext ==
  \/ CreateBooking({Owner}, MoveCreates, {"active"})
  \/ UpdateBooking({Owner}, MoveUpdates, {"active"})
  \/ DeleteBooking({Owner})

MoveSpec == Init /\ [][MoveNext]_vars

\* ---- the claims ---------------------------------------------------------

\* Invariant 2 of the data model, written out: A.start < B.end and
\* A.end > B.start for two Confirmed bookings of one court and date
Collide(a, b) ==
  /\ a.status = "Confirmada" /\ b.status = "Confirmada"
  /\ a.court_id = b.court_id /\ a.booking_date = b.booking_date
  /\ a.start_time < b.end_time /\ a.end_time > b.start_time

\* C1: whatever the interleaving of POST /bookings requests, a create never
\* persists a Confirmed booking that overlaps a Confirmed booking already
\* stored for its court and date (two overlapping creates never both get 201).
C1_NoDoubleCreate ==
  [][ Len(bookings') = Len(bookings) + 1 =>
        \A i \in 1..Len(bookings) :
          ~Collide(bookings[i], bookings'[Len(bookings')]) ]_vars

\* C2: with requests served one at a time, the Confirmed bookings of each
\* court and date never overlap pairwise, status-only updates included.
C2_NoOverlap ==
  \A i, j \in 1..Len(bookings) : i # j => ~Collide(bookings[i], bookings[j])

\* the slot of a row: what the conflict scan compares
Slot(b) == <<b.court_id, b.booking_date, b.start_time, b.end_time>>

\* C3: whatever the interleaving, an update that commits a changed court,
\* date or interval leaves its booking, when Confirmed, clear of every other
\* Confirmed booking of that court and date.
C3_UpdateAtomic ==
  [][ \A i \in 1..Len(bookings) :
        ( /\ Len(bookings') = Len(bookings)
          /\ Slot(bookings'[i]) # Slot(bookings[i]) )
        => \A j \in 1..Len(bookings) :
             j # i => ~Collide(bookings'[i], bookings'[j]) ]_vars

\* C4: every stored booking has start_time < end_time; a create with
\* start_time >= end_time is answered 400 and stores nothing; an update whose
\* supplied start and/or end make start_time >= end_time is answered 400 and
\* leaves the table as it was.
C4_StartBeforeEnd ==
  /\ \A i \in 1..Len(bookings) : bookings[i].start_time < bookings[i].end_time
  /\ \A body \in CreateBodiesOf(Courts, {Today, Tomorrow}, Starts, Ends) :
       ParseTime(body.start_time) >= ParseTime(body.end_time) =>
         LET r == create_booking(bookings, now, Owner, body, "active") IN
           r.code = 400 /\ r.db = bookings
  /\ \A i \in 1..Len(bookings) :
       \A body \in UpdateBodiesOf({NoStr}, {NoInt} \cup Courts, {NoStr, Tomorrow},
                                  {NoTime} \cup Starts, {NoTime} \cup Ends) :
         LET s == IF body.start_time = NoTime THEN bookings[i].start_time
                  ELSE ParseTime(body.start_time)
             e == IF body.end_time = NoTime THEN bookings[i].end_time
                  ELSE ParseTime(body.end_time)
             r == update_booking(bookings, now, Admin, i, body, "active")
         IN ((body.start_time # NoTime \/ body.end_time # NoTime) /\ s >= e)
            => r.code = 400 /\ r.db = bookings

\* 'HH:MM' strings a request may carry, quarter hours included
ProbeTimes == { <<9, 0>>, <<9, 15>>, <<9, 30>>, <<9, 45>>, <<10, 0>> }

\* C5: a create that passes validation and the court check is answered 409
\* exactly when a stored Confirmed booking E of its court and date has
\* E.start < new.end and E.end > new.start, and 201 otherwise; an interval
\* that only touches E is accepted.
C5_ConflictIff ==
  \A body \in CreateBodiesOf(Courts, {Today, Tomorrow}, ProbeTimes, ProbeTimes) :
    LET s == ParseTime(body.start_time)
        e == ParseTime(body.end_time)
        d == ParseDate(body.booking_date)
        r == create_booking(bookings, now, Owner, body, "active")
        taken == \E i \in 1..Len(bookings) :
                   /\ bookings[i].status = "Confirmada"
                   /\ bookings[i].court_id = body.court_id
                   /\ bookings[i].booking_date = d
                   /\ bookings[i].start_time < e
                   /\ bookings[i].end_time > s
    IN (s < e /\ d >= now) =>
         /\ r.code = 409 <=> taken
         /\ r.code = 201 <=> ~taken
         /\ r.code = 409 => r.db = bookings

\* two Confirmed bookings that touch are stored, and a request that overlaps
\* one of them in part is answered 409
C5_Touching ==
  \E i, j \in 1..Len(bookings) :
    /\ bookings[i].status = "Confirmada" /\ bookings[j].status = "Confirmada"
    /\ bookings[i].court_id = bookings[j].court_id
    /\ bookings[i].booking_date = bookings[j].booking_date
    /\ bookings[i].end_time = bookings[j].start_time
    /\ i < j
    /\ create_booking(bookings, now, Owner,
         [user_id |-> 2, court_id |-> bookings[i].court_id,
          booking_date |-> Today, start_time |-> <<9, 15>>,
          end_time |-> <<9, 45>>], "active").code = 409

\* a create body with every field present and well formed, for today or later
\* and with start before end
LocallyValid(body) ==
  /\ body.court_id # NoInt
  /\ body.booking_date \in {Today, Tomorrow}
  /\ ParseDate(body.booking_date) >= now
  /\ body.end_time # BadTimeString
  /\ ParseTime(body.start_time) < ParseTime(body.end_time)

\* C6: when the Court Registry cannot be reached during POST /bookings the
\* caller receives 503, not the 404 of a missing or inactive court, and no
\* row is stored.
C6_Unreachable503 ==
  \A tok \in Tokens, body \in AccessCreates :
    LocallyValid(body) =>
      LET r == create_booking(bookings, now, tok, body, "unreachable") IN
        r.code = 503 /\ r.db = bookings

\* C7: when the Court Registry call fails, returns a non-2xx status or returns
\* an inactive court, a create, and an update that supplies court_id, end
\* with an error and leave the bookings table as it was.
C7_NoWriteWithoutCourt ==
  \A tok \in Tokens, reply \in Replies \ {"active"} :
    /\ \A body \in AccessCreates :
         LET r == create_booking(bookings, now, tok, body, reply) IN
           r.code >= 400 /\ r.db = bookings
    /\ \A booking_id \in 1..Len(bookings), body \in AccessUpdates :
         body.court_id # NoInt =>
           LET r == update_booking(bookings, now, tok, booking_id, body, reply) IN
             r.code >= 400 /\ r.db = bookings

\* a stored booking whose update reaches the court check and fails there, and
\* a create that does
C7_CourtCheckFails ==
  /\ Len(bookings) >= 1
  /\ update_booking(bookings, now, Admin, 1,
       [status |-> "Cancelada", booking_date |-> NoStr, start_time |-> NoTime,
        end_time |-> NoTime, court_id |-> 1], "unreachable").msg = "court"
  /\ create_booking(bookings, now, Admin,
       [user_id |-> 2, court_id |-> 1, booking_date |-> Tomorrow,
        start_time |-> <<9, 0>>, end_time |-> <<9, 30>>], "inactive").msg = "court"

\* C8: a booking created by POST /bookings is owned by the user_id of the
\* caller's token, whatever user_id the request body carries.
C8_OwnerFromToken ==
  \A tok \in Tokens, body \in AccessCreates, u \in {NoInt, 1, 2} :
    LET r == create_booking(bookings, now, tok,
                            [body EXCEPT !.user_id = u], "active")
    IN r.code = 201 =>
         /\ Len(r.db) = Len(bookings) + 1
         /\ r.db[Len(r.db)].user_id = tok.user_id

\* a stored booking of user 1, whose every create names user 2 in its body
C8_OwnBooking ==
  /\ \A body \in AccessCreates : body.user_id = 2
  /\ \E i \in 1..Len(bookings) : bookings[i].user_id = 1

\* C9 as written: a create for a date before today is answered 400 for every
\* caller and stores nothing, hence every booking has booking_date >= the
\* date on which it was created.
C9_NeverBeforeCreation ==
  /\ \A tok \in Tokens, body \in AccessCreates, reply \in Replies :
       ( /\ body.court_id # NoInt /\ body.booking_date \in {Today, Tomorrow}
         /\ body.end_time # BadTimeString
         /\ ParseDate(body.booking_date) < now )
       => LET r == create_booking(bookings, now, tok, body, reply) IN
            r.code = 400 /\ r.db = bookings
  /\ \A i \in 1..Len(bookings) :
       bookings[i].booking_date >= bookings[i].created_at

\* C9 as amended: a create for a date before today is answered 400 for every
\* caller and stores nothing, hence every booking has, when it is created,
\* booking_date >= the date of its creation.
C9_PastDateRejected ==
  \A tok \in Tokens, body \in AccessCreates, reply \in Replies :
    LET r == create_booking(bookings, now, tok, body, reply) IN
      /\ ( /\ body.court_id # NoInt /\ body.booking_date \in {Today, Tomorrow}
           /\ body.end_time # BadTimeString
           /\ ParseDate(body.booking_date) < now )
         => r.code = 400 /\ r.msg = "past_date" /\ r.db = bookings
      /\ r.code = 201 =>
           r.db[Len(r.db)].booking_date >= r.db[Len(r.db)].created_at

\* on the second day an Administrator's create for the first day is refused,
\* and a booking created on the second day is stored
C9_Yesterday ==
  /\ now = 2
  /\ create_booking(bookings, now, Admin,
       [user_id |-> 2, court_id |-> 1, booking_date |-> Today,
        start_time |-> <<9, 0>>, end_time |-> <<9, 30>>], "active").msg = "past_date"
  /\ \E i \in 1..Len(bookings) : bookings[i].created_at = 2

\* C10: on GET, PUT and DELETE /bookings/<id> a caller who neither owns the
\* booking nor is Administrator gets 403, no booking in the answer and no
\* change; the owner and an Administrator pass the gate; an id that is not
\* stored gets 404 for every caller.
C10_OwnerOrAdmin ==
  \A tok \in Tokens, booking_id \in 1..(Len(bookings) + 1) :
    LET stored == booking_id <= Len(bookings)
        stranger == /\ stored
                    /\ bookings[booking_id].user_id # tok.user_id
                    /\ tok.role # "Administrador"
        want == IF ~stored THEN 404 ELSE IF stranger THEN 403 ELSE 0
        g == get_booking_by_id(bookings, tok, booking_id)
        d == delete_booking(bookings, now, tok, booking_id)
    IN /\ want # 0 => /\ g.code = want /\ g.id = 0
                      /\ d.code = want /\ d.id = 0 /\ d.db = bookings
       /\ want = 0 => g.code = 200 /\ g.id = booking_id /\ d.code = 200
       /\ \A body \in AccessUpdates, reply \in {"active", "unreachable"} :
            LET u == update_booking(bookings, now, tok, booking_id, body, reply)
            IN /\ want # 0 => u.code = want /\ u.id = 0 /\ u.db = bookings
               /\ want = 0 => u.msg \notin {"forbidden", "not_found"}

\* a booking of the Administrator is stored, and the plain user asks for it
C10_Stranger ==
  \E i \in 1..Len(bookings) :
    /\ bookings[i].user_id = 2
    /\ get_booking_by_id(bookings, Owner, i).code = 403
    /\ delete_booking(bookings, now, Owner, i).code = 403

\* C11: GET /bookings answers an Administrator with every stored booking and
\* any other caller with exactly the stored bookings whose owner is the
\* token's user_id, whatever their status: none of another owner, none of the
\* caller's own left out.
C11_ListExactlyOwn ==
  \A tok \in Tokens :
    LET r == get_bookings(bookings, tok)
        listed == { r.output[k].id : k \in 1..Len(r.output) }
        due == { i \in 1..Len(bookings) :
                   tok.role = "Administrador" \/ bookings[i].user_id = tok.user_id }
    IN /\ r.code = 200
       /\ listed = due
       /\ Len(r.output) = Cardinality(due)
       /\ \A k \in 1..Len(r.output) :
            r.output[k] = to_dict(bookings[r.output[k].id])

\* the plain user has a cancelled booking and the Administrator has one too
C11_MixedOwners ==
  \E i, j \in 1..Len(bookings) :
    /\ bookings[i].user_id = 1 /\ bookings[i].status = "Cancelada"
    /\ bookings[j].user_id = 2
    /\ Len(get_bookings(bookings, Owner).output) = 1
    /\ Len(get_bookings(bookings, Admin).output) = 2

\* C12: DELETE /bookings/<id> by the owner or an Administrator answers 200,
\* sets the status to Cancelada and keeps the record; across every create,
\* update and cancel no booking leaves the table: the stored ids only grow.
C12_SoftDelete ==
  [][ /\ Len(bookings') >= Len(bookings)
      /\ \A i \in 1..Len(bookings) : bookings'[i].id = bookings[i].id
      /\ \A tok \in Tokens, i \in 1..Len(bookings) :
           ~Denied(tok, bookings[i]) =>
             LET r == delete_booking(bookings, now, tok, i) IN
               /\ r.code = 200
               /\ Len(r.db) = Len(bookings)
               /\ r.db[i].id = i
               /\ r.db[i].status = "Cancelada" ]_vars

\* a cancelled booking is still stored beside a later one
C12_CancelledKept ==
  \E i, j \in 1..Len(bookings) :
    /\ i < j
    /\ bookings[i].status = "Cancelada"
    /\ bookings[j].status = "Confirmada"

\* what a caller can observe of a booking apart from its last-update time
Observable(b) ==
  [ id |-> b.id, user_id |-> b.user_id, court_id |-> b.court_id,
    booking_date |-> b.booking_date, start_time |-> b.start_time,
    end_time |-> b.end_time, status |-> b.status, created_at |-> b.created_at ]

\* C13: cancelling an already Cancelada booking answers 200 and changes no
\* field but updated_at, so one DELETE and two DELETEs, the second at any
\* later time, leave the same observable booking and the same other rows.
C13_CancelIdempotent ==
  \A tok \in Tokens, i \in 1..Len(bookings), later \in now..(MaxClock + 1) :
    ~Denied(tok, bookings[i]) =>
      LET once == delete_booking(bookings, now, tok, i)
          twice == delete_booking(once.db, later, tok, i)
      IN /\ once.code = 200 /\ twice.code = 200
         /\ Observable(twice.db[i]) = Observable(once.db[i])
         /\ twice.db[i].status = "Cancelada"
         /\ twice.db[i].updated_at = later
         /\ \A j \in 1..Len(bookings) :
              j # i => twice.db[j] = bookings[j] /\ once.db[j] = bookings[j]
         /\ Len(twice.db) = Len(bookings)
         /\ bookings[i].status = "Cancelada" =>
              Observable(once.db[i]) = Observable(bookings[i])

\* a cancelled booking is stored and its owner cancels it again a day later
C13_CancelledAgain ==
  \E i \in 1..Len(bookings) :
    /\ bookings[i].status = "Cancelada"
    /\ bookings[i].user_id = 1
    /\ LET r == delete_booking(bookings, now + 1, Owner, i) IN
         r.code = 200 /\ r.db[i].updated_at # bookings[i].updated_at

\* the ranges of days an availability request can name and be answered 200
GoodRanges ==
  { range \in AvailRanges :
      /\ range[1] \in {Today, Tomorrow, DayAfter}
      /\ range[2] \in {Today, Tomorrow, DayAfter}
      /\ ParseDate(range[1]) <= ParseDate(range[2]) }

\* C14: for every day of an availability answer the slots are 14, each 60
\* minutes wide, the first starts at 08:00, each starts where the one before
\* ends and the last ends at 22:00: they cover the operating window with no
\* gap and no overlap.
C14_SlotsCoverWindow ==
  \A court_id \in Courts, range \in GoodRanges :
    LET r == get_court_availability(bookings, court_id, range[1], range[2],
                                    "active")
    IN /\ r.code = 200
       /\ \A d \in DOMAIN r.availability :
            LET slots == r.availability[d] IN
              /\ Len(slots) = 14
              /\ slots[1].start_time = <<8, 0>>
              /\ slots[Len(slots)].end_time = <<22, 0>>
              /\ \A k \in 1..Len(slots) :
                   ParseTime(slots[k].end_time)
                     = ParseTime(slots[k].start_time) + 60
              /\ \A k \in 1..(Len(slots) - 1) :
                   slots[k + 1].start_time = slots[k].end_time

\* with a Confirmed booking stored, three days of court 1 are answered
C14_ThreeDays ==
  /\ \E i \in 1..Len(bookings) :
       bookings[i].status = "Confirmada" /\ bookings[i].court_id = 1
  /\ LET r == get_court_availability(bookings, 1, Today, DayAfter, "active")
     IN r.code = 200 /\ Cardinality(DOMAIN r.availability) = 3

\* C15: a slot of a court and date is flagged unavailable exactly when a
\* Confirmed booking B of that court and date has slot.start < B.end and
\* slot.end > B.start; Cancelled and Completed bookings and bookings of
\* another court or date never count.
C15_UnavailableIff ==
  \A court_id \in Courts, range \in GoodRanges :
    LET r == get_court_availability(bookings, court_id, range[1], range[2],
                                    "active")
    IN \A d \in DOMAIN r.availability :
         \A k \in 1..Len(r.availability[d]) :
           LET slot == r.availability[d][k]
               taken == \E i \in 1..Len(bookings) :
                          /\ bookings[i].status = "Confirmada"
                          /\ bookings[i].court_id = court_id
                          /\ bookings[i].booking_date = ParseDate(d)
                          /\ ParseTime(slot.start_time) < bookings[i].end_time
                          /\ ParseTime(slot.end_time) > bookings[i].start_time
           IN slot.is_available <=> ~taken

\* 10:00-11:00 is Confirmed on court 1 today beside a 09:30-10:30 that is
\* not: the slot of 10:00 is taken, the two it touches are free
C15_TouchingSlots ==
  /\ \E i, j \in 1..Len(bookings) :
       /\ bookings[i].status = "Confirmada" /\ bookings[i].court_id = 1
       /\ bookings[i].booking_date = 1
       /\ bookings[i].start_time = 600 /\ bookings[i].end_time = 660
       /\ bookings[j].status # "Confirmada" /\ bookings[j].court_id = 1
       /\ bookings[j].booking_date = 1
       /\ bookings[j].start_time = 570 /\ bookings[j].end_time = 630
  /\ LET slots == get_court_availability(bookings, 1, Today, Today,
                                         "active").availability[Today]
     IN /\ slots[2].is_available
        /\ ~slots[3].is_available
        /\ slots[4].is_available

\* creates on either court and day, across slots, on a slot and off the hour
RoundTripCreates ==
  CreateBodiesOf(Courts, {Today, Tomorrow}, { <<9, 30>>, <<10, 0>>, <<12, 0>> },
                 { <<10, 30>>, <<11, 0>>, <<13, 15>> })

\* C16: after a create answered 201 for court C, date D and interval I, the
\* availability of C over [D, D] computed on the table it left marks every
\* slot that intersects I unavailable, and available every slot that
\* intersects neither I nor another Confirmed booking of C and D.
C16_CreateThenAvailability ==
  \A body \in RoundTripCreates :
    LET c == create_booking(bookings, now, Owner, body, "active")
        D == body.booking_date
        s == ParseTime(body.start_time)
        e == ParseTime(body.end_time)
        a == get_court_availability(c.db, body.court_id, D, D, "active")
    IN c.code = 201 =>
         /\ a.code = 200
         /\ DOMAIN a.availability = {D}
         /\ \A k \in 1..Len(a.availability[D]) :
              LET slot == a.availability[D][k]
                  ss == ParseTime(slot.start_time)
                  se == ParseTime(slot.end_time)
                  other == \E i \in 1..Len(bookings) :
                             /\ bookings[i].status = "Confirmada"
                             /\ bookings[i].court_id = body.court_id
                             /\ bookings[i].booking_date = ParseDate(D)
                             /\ ss < bookings[i].end_time
                             /\ se > bookings[i].start_time
              IN /\ (ss < e /\ se > s) => ~slot.is_available
                 /\ (~(ss < e /\ se > s) /\ ~other) => slot.is_available

\* 09:30-10:30 was created on court 1 today and a create of 12:00-13:15
\* there is answered 201: availability then has the slots of 09:00, 10:00,
\* 12:00 and 13:00 taken and the slot of 11:00 free
C16_BookedThenAsked ==
  /\ \E i \in 1..Len(bookings) :
       /\ bookings[i].status = "Confirmada" /\ bookings[i].court_id = 1
       /\ bookings[i].booking_date = 1
       /\ bookings[i].start_time = 570 /\ bookings[i].end_time = 630
  /\ LET c == create_booking(bookings, now, Owner,
                [user_id |-> 2, court_id |-> 1, booking_date |-> Today,
                 start_time |-> <<12, 0>>, end_time |-> <<13, 15>>], "active")
         slots == get_court_availability(c.db, 1, Today, Today,
                                         "active").availability[Today]
     IN /\ c.code = 201
        /\ ~slots[2].is_available /\ ~slots[3].is_available
        /\ slots[4].is_available
        /\ ~slots[5].is_available /\ ~slots[6].is_available

\* C17: a request with two well-formed dates, start_date <= end_date and an
\* active court is answered 200 with exactly one entry per day of the closed
\* range; start_date > end_date is answered 400 and a missing, inactive or
\* unreachable court 404, with no slot computed.
C17_OneEntryPerDay ==
  \A court_id \in Courts, range \in AvailRanges, reply \in Replies :
    (DateParses(range[1]) /\ DateParses(range[2])) =>
      LET first == ParseDate(range[1])
          last == ParseDate(range[2])
          r == get_court_availability(bookings, court_id, range[1], range[2],
                                      reply)
      IN /\ first > last => r.code = 400 /\ r.availability = NoDays
         /\ (first <= last /\ reply # "active") =>
              r.code = 404 /\ r.availability = NoDays
         /\ (first <= last /\ reply = "active") =>
              /\ r.code = 200
              /\ DOMAIN r.availability = { FormatDate(d) : d \in first..last }
              /\ Cardinality(DOMAIN r.availability) = last - first + 1

\* C17 away from the last day of the calendar (holds)
C17_NearDays ==
  \A court_id \in Courts, range \in NearDates \X NearDates, reply \in Replies :
    (DateParses(range[1]) /\ DateParses(range[2])) =>
      LET first == ParseDate(range[1])
          last == ParseDate(range[2])
          r == get_court_availability(bookings, court_id, range[1], range[2],
                                      reply)
      IN /\ first > last => r.code = 400 /\ r.availability = NoDays
         /\ (first <= last /\ reply # "active") =>
              r.code = 404 /\ r.availability = NoDays
         /\ (first <= last /\ reply = "active") =>
              /\ r.code = 200
              /\ DOMAIN r.availability = { FormatDate(d) : d \in first..last }
              /\ Cardinality(DOMAIN r.availability) = last - first + 1

Unusable(headers, clock) ==
  \/ ~headers.present
  \/ headers.parts < 2
  \/ headers.token.empty
  \/ headers.token.kind # "good"
  \/ Expired(headers.token, clock)

\* C19: with the Authorization header absent, malformed (no token part after
\* the scheme word included), wrongly signed or expired the gate answers 401
\* and the handler does not run, so the table stays; a token with a valid
\* signature and unexpired reaches the handler with the user_id and role of
\* its claims.
C19_Unusable401 ==
  \A h \in Headers :
    LET g == token_required(h, now) IN
      /\ Unusable(h, now) =>
           /\ g.code = 401
           /\ \A booking_id \in BookingIds :
                LET d == protected(h, now, bookings,
                           delete_booking(bookings, now, token_required(h, now).tok, booking_id))
                IN d.code = 401 /\ d.db = bookings
           /\ \A body \in AccessCreates :
                LET c == protected(h, now, bookings,
                           create_booking(bookings, now, token_required(h, now).tok, body, "active"))
                IN c.code = 401 /\ c.db = bookings
      /\ ~Unusable(h, now) =>
           /\ g.code = 0
           /\ g.tok = [user_id |-> h.token.user_id, role |-> h.token.role]

\* C19 without the header that has no token part (holds)
C19_Unusable401OrRaised ==
  \A h \in Headers :
    LET g == token_required(h, now) IN
      /\ Unusable(h, now) =>
           /\ g.code = IF h.present /\ h.parts < 2 THEN 500 ELSE 401
           /\ \A booking_id \in BookingIds :
                protected(h, now, bookings,
                  delete_booking(bookings, now, token_required(h, now).tok, booking_id)).db
                  = bookings
           /\ \A body \in AccessCreates :
                protected(h, now, bookings,
                  create_booking(bookings, now, token_required(h, now).tok, body, "active")).db
                  = bookings
      /\ ~Unusable(h, now) =>
           /\ g.code = 0
           /\ g.tok = [user_id |-> h.token.user_id, role |-> h.token.role]

\* C20: the permission gate admits an authenticated caller exactly when the
\* role is Administrator or the Access Control Store lists the permission
\* among the caller's; a plain user who holds it is admitted, one who does
\* not is answered 403.
C20_PermissionIff ==
  \A h \in Headers, listed \in BOOLEAN :
    LET g == token_required(h, now)
        p == permission_required(h, now, listed)
    IN (g.code = 0 /\ g.tok.user_id # NoInt) =>
         /\ p.code = 0 <=> (g.tok.role = "Administrador" \/ listed)
         /\ p.code # 0 => p.code = 403

\* C21: a PUT that supplies a booking_date before today is applied only for
\* an Administrator, who gets the answer the same request would get on that
\* date; the owner is answered 400 and any other plain caller 403, and the
\* stored booking keeps its date and every other field, a status supplied in
\* the same request included.
C21_PastDateOnlyAdmin ==
  \A tok \in Tokens, i \in 1..Len(bookings), body \in AccessUpdates,
     reply \in Replies :
    ( /\ body.booking_date \in {Today, Tomorrow}
      /\ ParseDate(body.booking_date) < now ) =>
      LET r == update_booking(bookings, now, tok, i, body, reply)
          then == update_booking(bookings, ParseDate(body.booking_date), tok, i,
                                 body, reply)
      IN IF tok.role = "Administrador"
         THEN /\ r.msg # "past_date"
              /\ r.code = then.code
              /\ r.code = 200 =>
                   /\ r.db[i].booking_date = ParseDate(body.booking_date)
                   /\ Observable(r.db[i]) = Observable(then.db[i])
         ELSE /\ r.code = IF bookings[i].user_id = tok.user_id THEN 400 ELSE 403
              /\ r.db = bookings

\* on the second day a Confirmed booking of the plain user is stored for that
\* day: moving it to the first day and cancelling it in one request is
\* refused to its owner and granted to the Administrator
C21_MoveToYesterday ==
  /\ now = 2
  /\ \E i \in 1..Len(bookings) :
       LET body == [status |-> "Cancelada", booking_date |-> Today,
                    start_time |-> NoTime, end_time |-> NoTime,
                    court_id |-> NoInt]
           mine == update_booking(bookings, now, Owner, i, body, "active")
           admins == update_booking(bookings, now, Admin, i, body, "active")
       IN /\ bookings[i].user_id = 1 /\ bookings[i].booking_date = 2
          /\ bookings[i].status = "Confirmada"
          /\ mine.msg = "past_date" /\ mine.db = bookings
          /\ admins.code = 200 /\ admins.db[i].booking_date = 1
          /\ admins.db[i].status = "Cancelada"

\* C22: a PUT answered with an error (400, 403, 404, 409, or 500 when the
\* commit fails) leaves the table as it was, whatever fields were assigned
\* before the failing check; a PUT answered 200 leaves the booking with every
\* supplied field and the update time set, and the other rows as they were.
C22_UpdateAllOrNothing ==
  \A tok \in Tokens, booking_id \in BookingIds, body \in AccessUpdates,
     reply \in {"active", "unreachable"} :
    LET r == update_booking_or_rollback(bookings, now, tok, booking_id, body,
                                        reply, TRUE)
        f == update_booking_or_rollback(bookings, now, tok, booking_id, body,
                                        reply, FALSE)
    IN /\ f.code # 200 /\ f.db = bookings
       /\ f.code = IF r.code = 200 THEN 500 ELSE r.code
       /\ r.code # 200 => r.db = bookings
       /\ r.code = 200 =>
            /\ r.db[booking_id] =
                 [Assigned(bookings[booking_id], body) EXCEPT !.updated_at = now]
            /\ Len(r.db) = Len(bookings)
            /\ \A j \in 1..Len(bookings) :
                 j # booking_id => r.db[j] = bookings[j]

\* a Confirmed booking of the plain user whose owner, with a valid status in
\* the body, is answered each error: malformed date, past date, malformed
\* time, court, start >= end and failed commit; and another booking is in
\* the way of a move
C22_EveryError ==
  /\ now = 2
  /\ \E i, j \in 1..Len(bookings) :
       LET put(date, start, end, court, reply, committed) ==
             update_booking_or_rollback(bookings, now, Owner, i,
               [status |-> "Cancelada", booking_date |-> date,
                start_time |-> start, end_time |-> end, court_id |-> court],
               reply, committed)
       IN /\ bookings[i].user_id = 1 /\ bookings[i].status = "Confirmada"
          /\ bookings[i].booking_date = 2
          /\ put(BadDateString, NoTime, NoTime, NoInt, "active", TRUE).msg = "bad_format"
          /\ put(Today, NoTime, NoTime, NoInt, "active", TRUE).msg = "past_date"
          /\ put(NoStr, NoTime, BadTimeString, NoInt, "active", TRUE).msg = "bad_format"
          /\ put(NoStr, NoTime, NoTime, 1, "unreachable", TRUE).msg = "court"
          /\ put(NoStr, <<9, 30>>, NoTime, NoInt, "active", TRUE).msg = "bad_range"
          /\ put(NoStr, NoTime, NoTime, NoInt, "active", FALSE).code = 500
          /\ put(NoStr, NoTime, NoTime, NoInt, "active", TRUE).code = 200
          /\ bookings[j].user_id = 2
          /\ update_booking(bookings, now, Owner, j,
               [status |-> "Cancelada", booking_date |-> NoStr,
                start_time |-> NoTime, end_time |-> NoTime, court_id |-> NoInt],
               "active").code = 403

\* C23: every create, update with a court and availability request that
\* calls the Court Registry gets its response, even if the registry accepts
\* the connection and never answers.
C23_CallAnswered ==
  \A w \in Workers : (sess[w].pc = "calling") ~> (sess[w].pc = "idle")

\* once the registry has answered, the request gets its response (holds)
C23_AnsweredFinishes ==
  \A w \in Workers : (sess[w].pc = "answered") ~> (sess[w].pc = "idle")

\* the overlap predicate of Invariant 2
overlaps(A, B) == A.start_time < B.end_time /\ A.end_time > B.start_time

\* intervals on the half hours from 09:00 to 11:00, empty and reversed ones
\* included
ProbeIntervals ==
  [ start_time : {540, 570, 600, 630, 660}, end_time : {540, 570, 600, 630, 660} ]

\* C24: overlaps(A, B) = (A.start < B.end and A.end > B.start) is symmetric
\* for all pairs of intervals and true of (A, A) when A.start < A.end, and
\* the create scan, the update scan and the slot test each select exactly
\* the Confirmed bookings of the court and date that overlap by it.
C24_OneOverlapPredicate ==
  /\ \A A, B \in ProbeIntervals :
       /\ overlaps(A, B) <=> overlaps(B, A)
       /\ A.start_time < A.end_time => overlaps(A, A)
  /\ \A A \in ProbeIntervals, court_id \in Courts, d \in 1..2 :
       LET hit == { i \in 1..Len(bookings) :
                      /\ bookings[i].status = "Confirmada"
                      /\ bookings[i].court_id = court_id
                      /\ bookings[i].booking_date = d
                      /\ overlaps(A, bookings[i]) }
           moved(id) == [ id |-> id, court_id |-> court_id, booking_date |-> d,
                          start_time |-> A.start_time, end_time |-> A.end_time ]
       IN /\ CreateConflicts(bookings, court_id, d, A.start_time, A.end_time) = hit
          /\ \A id \in 1..Len(bookings) :
               UpdateConflicts(bookings, id, moved(id)) = hit \ {id}
          /\ IsOccupied(bookings, OccupiedSlots(bookings, court_id, d),
                        A.start_time, A.end_time) <=> hit # {}

\* two Confirmed bookings of court 1 today overlap each other, and a probe
\* that starts inside the first and ends before it ends is caught by the
\* three scans
C24_ScansAgree ==
  \E i, j \in 1..Len(bookings) :
    /\ i # j
    /\ bookings[i].status = "Confirmada" /\ bookings[j].status = "Confirmada"
    /\ bookings[i].court_id = 1 /\ bookings[j].court_id = 1
    /\ bookings[i].booking_date = 1 /\ bookings[j].booking_date = 1
    /\ overlaps(bookings[i], bookings[j]) /\ overlaps(bookings[j], bookings[i])
    /\ CreateConflicts(bookings, 1, 1, 600, 630) = {i, j}
    /\ UpdateConflicts(bookings, i, [bookings[i] EXCEPT !.start_time = 600]) = {j}
    /\ IsOccupied(bookings, OccupiedSlots(bookings, 1, 1), 600, 660)

\* the first local step of the create pipeline that a body fails
FirstLocalFailure(body, today) ==
  IF \/ body.court_id = NoInt \/ body.booking_date = NoStr
     \/ body.start_time = NoTime \/ body.end_time = NoTime
  THEN "missing_fields"
  ELSE IF \/ body.booking_date = BadDateString
          \/ body.start_time = BadTimeString \/ body.end_time = BadTimeString
  THEN "bad_format"
  ELSE IF ParseDate(body.booking_date) < today THEN "past_date"
  ELSE IF ParseTime(body.start_time) >= ParseTime(body.end_time) THEN "bad_range"
  ELSE "ok"

\* C25: a create is answered with the error of the earliest failing step of:
\* field presence and format, past date, start < end, court check, conflict
\* scan, insert.  The Court Registry is called only when the three local
\* checks pass, the scan decides only when the court check passes, and a body
\* with a past date and start >= end gets the past-date error and no call.
C25_CreateOrder ==
  \A tok \in Tokens, body \in AccessCreates, reply \in Replies :
    LET r == create_booking(bookings, now, tok, body, reply)
        local == FirstLocalFailure(body, now)
    IN /\ local # "ok" =>
            /\ r.code = 400 /\ r.msg = local
            /\ r.reply = NoReply /\ r.db = bookings
       /\ local = "ok" =>
            /\ r.reply = reply
            /\ reply # "active" => r.code = 404 /\ r.msg = "court"
            /\ reply = "active" => r.code \in {409, 201}
       /\ r.code \in {409, 201} => local = "ok" /\ r.reply = "active"
       /\ r.code = 201 <=> r.db # bookings

\* on the second day, with a Confirmed 09:00-09:30 on court 1 that day: a
\* body for the first day with start = end, the same body for the second
\* day, a good body with the registry down and a good body with it up are
\* answered past date, bad range, court and conflict
C25_EachStepFails ==
  /\ now = 2
  /\ \E i \in 1..Len(bookings) :
       /\ bookings[i].status = "Confirmada" /\ bookings[i].booking_date = 2
  /\ LET post(date, start, reply) ==
           create_booking(bookings, now, Owner,
             [user_id |-> 2, court_id |-> 1, booking_date |-> date,
              start_time |-> start, end_time |-> <<9, 30>>], reply)
     IN /\ post(Today, <<9, 30>>, "unreachable").msg = "past_date"
        /\ post(Today, <<9, 30>>, "unreachable").reply = NoReply
        /\ post(Tomorrow, <<9, 30>>, "unreachable").msg = "bad_range"
        /\ post(Tomorrow, <<9, 0>>, "unreachable").msg = "court"
        /\ post(Tomorrow, <<9, 0>>, "active").msg = "conflict"

\* the (court, date, interval) a booking has after an update: each field of
\* the body that is supplied, the stored one otherwise
Updated(booking, body) ==
  [ court_id |-> IF body.court_id = NoInt THEN booking.court_id ELSE body.court_id,
    booking_date |-> IF body.booking_date = NoStr THEN booking.booking_date
                     ELSE ParseDate(body.booking_date),
    start_time |-> IF body.start_time = NoTime THEN booking.start_time
                   ELSE ParseTime(body.start_time),
    end_time |-> IF body.end_time = NoTime THEN booking.end_time
                 ELSE ParseTime(body.end_time) ]

\* a different Confirmed booking on the updated court and date overlaps the
\* updated interval
OtherInTheWay(db, id, body) ==
  \E j \in 1..Len(db) :
    /\ j # id /\ db[j].status = "Confirmada"
    /\ db[j].court_id = Updated(db[id], body).court_id
    /\ db[j].booking_date = Updated(db[id], body).booking_date
    /\ overlaps(db[j], Updated(db[id], body))

StatusOnly(status) ==
  [status |-> status, court_id |-> NoInt, booking_date |-> NoStr,
   start_time |-> NoTime, end_time |-> NoTime]

\* C27: for a booking in any status and any S of Confirmada, Cancelada and
\* Completada, a PUT by the owner or an Administrator with status = S alone is
\* answered 200 and leaves the booking with status S and its court, date and
\* interval as they were; with a status outside the three it is answered 400
\* and the table is unchanged.  No call to the Court Registry is made.
C27_AnyStatusToAny ==
  \A id \in 1..Len(bookings), tok \in {Owner, Admin}, reply \in Replies :
    /\ \A S \in Statuses :
         LET r == update_booking(bookings, now, tok, id, StatusOnly(S), reply)
         IN /\ r.code = 200 /\ r.reply = NoReply
            /\ Len(r.db) = Len(bookings)
            /\ r.db[id] = [bookings[id] EXCEPT !.status = S, !.updated_at = now]
            /\ \A j \in 1..Len(bookings) : j # id => r.db[j] = bookings[j]
    /\ LET r == update_booking(bookings, now, tok, id, StatusOnly(BadStatus), reply)
       IN r.code = 400 /\ r.msg = "bad_status" /\ r.db = bookings

\* the table holds a cancelled and a completed booking, and a PUT sets
\* either back to Confirmada
C27_BackToConfirmed ==
  \E i, j \in 1..Len(bookings) :
    /\ bookings[i].status = "Cancelada" /\ bookings[j].status = "Completada"
    /\ update_booking(bookings, now, Owner, i, StatusOnly("Confirmada"),
                      "active").db[i].status = "Confirmada"
    /\ update_booking(bookings, now, Admin, j, StatusOnly("Confirmada"),
                      "active").db[j].status = "Confirmada"

\* the bodies of AvailCreates that ask for the court, date and interval of
\* a stored booking
SameSlot(booking) ==
  { body \in AvailCreates :
      /\ body.court_id = booking.court_id
      /\ ParseDate(body.booking_date) = booking.booking_date
      /\ ParseTime(body.start_time) = booking.start_time
      /\ ParseTime(body.end_time) = booking.end_time }

\* C28, as the spec states it: after a Confirmed booking of a date not in
\* the past is cancelled, a create of the same court, date and interval on
\* an active court is answered 201.
C28_CancelThenCreate ==
  \A i \in 1..Len(bookings) :
    (bookings[i].status = "Confirmada" /\ bookings[i].booking_date >= now) =>
      LET cancelled == delete_booking(bookings, now, Owner, i) IN
        /\ cancelled.code = 200
        /\ \A body \in SameSlot(bookings[i]) :
             create_booking(cancelled.db, now, Owner, body, "active").code = 201

\* C28, for the part the code decides: a booking that is cancelled, or set
\* to Cancelada or Completada by update, is selected by no conflict scan, and
\* a create of its court, date and interval is then answered 201 unless
\* another Confirmed booking overlaps it.
C28_OnlyConfirmedOccupy ==
  \A i \in 1..Len(bookings) :
    bookings[i].booking_date >= now =>
      \A after \in { delete_booking(bookings, now, Owner, i).db,
                      update_booking(bookings, now, Owner, i,
                                     StatusOnly("Cancelada"), "active").db,
                      update_booking(bookings, now, Owner, i,
                                     StatusOnly("Completada"), "active").db } :
        /\ after[i].status # "Confirmada"
        /\ \A A \in ProbeIntervals, k \in 1..Len(after) :
             /\ i \notin CreateConflicts(after, after[i].court_id,
                                         after[i].booking_date,
                                         A.start_time, A.end_time)
             /\ i \notin UpdateConflicts(after, k,
                    [after[k] EXCEPT !.court_id = after[i].court_id,
                                     !.booking_date = after[i].booking_date,
                                     !.start_time = A.start_time,
                                     !.end_time = A.end_time])
        /\ \A body \in SameSlot(bookings[i]) :
             LET r == create_booking(after, now, Owner, body, "active")
                 other == \E j \in 1..Len(after) :
                            /\ j # i /\ after[j].status = "Confirmada"
                            /\ after[j].court_id = after[i].court_id
                            /\ after[j].booking_date = after[i].booking_date
                            /\ overlaps(after[j], after[i])
             IN /\ r.code = 409 <=> other
                /\ r.code = 201 <=> ~other

\* every booking of table db is in table after, in its place, with the
\* identifier, owner and creation time it had, and all but booking id are
\* as they were
Kept(db, after, id) ==
  /\ Len(after) >= Len(db)
  /\ \A j \in 1..Len(db) :
       /\ after[j].id = db[j].id
       /\ after[j].user_id = db[j].user_id
       /\ after[j].created_at = db[j].created_at
       /\ j # id => after[j] = db[j]

\* C29: no operation changes a stored booking's id, user_id or created_at.
\* An update changes at most status, date, start, end, court and updated_at
\* of the booking it names, a cancel only its status and updated_at, a create
\* adds one row, and each leaves every other booking as it was; this on the
\* day the table was written and on the day after, for the owner and for an
\* Administrator, who does not become the owner.
C29_IdentityKept ==
  \A tok \in Tokens, clock \in {now, now + 1} :
    /\ \A id \in 1..Len(bookings) :
         /\ \A body \in AccessUpdates, reply \in Replies :
              LET r == update_booking(bookings, clock, tok, id, body, reply) IN
                /\ Len(r.db) = Len(bookings)
                /\ Kept(bookings, r.db, id)
                /\ r.code # 200 => r.db = bookings
         /\ LET r == delete_booking(bookings, clock, tok, id) IN
              /\ Len(r.db) = Len(bookings)
              /\ Kept(bookings, r.db, id)
              /\ r.code = 200 =>
                   r.db[id] = [bookings[id] EXCEPT !.status = "Cancelada",
                                                   !.updated_at = clock]
              /\ r.code # 200 => r.db = bookings
    /\ \A body \in AccessCreates, reply \in Replies :
         LET r == create_booking(bookings, clock, tok, body, reply) IN
           /\ Kept(bookings, r.db, 0)
           /\ Len(r.db) = Len(bookings) + (IF r.code = 201 THEN 1 ELSE 0)

\* the table holds a booking of user 1 and one of user 2; on the day after,
\* the Administrator (user 2) moves the first and cancels it, and it is still
\* booking 1 of user 1, created on the day it was created
C29_AdminDoesNotOwn ==
  /\ Len(bookings) = 2
  /\ bookings[1].user_id = 1 /\ bookings[2].user_id = 2
  /\ bookings[1].status = "Confirmada"
  /\ LET admin == [user_id |-> 2, role |-> "Administrador"]
         moved == update_booking(bookings, now + 1, admin, 1,
                    [status |-> "Cancelada", court_id |-> NoInt,
                     booking_date |-> Tomorrow, start_time |-> NoTime,
                     end_time |-> NoTime], "active")
         gone == delete_booking(bookings, now + 1, admin, 1)
     IN /\ moved.code = 200 /\ moved.db[1] # bookings[1]
        /\ moved.db[1].user_id = 1 /\ moved.db[1].created_at = now
        /\ gone.code = 200 /\ gone.db[1].user_id = 1
        /\ moved.db[2] = bookings[2] /\ gone.db[2] = bookings[2]

\* POST /bookings for exactly a slot of an availability result
SlotCreate(court_id, D, slot) ==
  create_booking(bookings, now, Owner,
    [user_id |-> 2, court_id |-> court_id, booking_date |-> D,
     start_time |-> slot.start_time, end_time |-> slot.end_time], "active")

\* C30: on one table, for an active court and a date not in the past, a
\* create whose interval is exactly a slot of the availability result is
\* answered 201 when the slot is flagged available and 409 when it is
\* flagged unavailable.
C30_AvailabilityAgreesWithCreate ==
  \A court_id \in Courts, D \in {Today, Tomorrow, DayAfter} :
    ParseDate(D) >= now =>
      LET a == get_court_availability(bookings, court_id, D, D, "active") IN
        /\ a.code = 200
        /\ \A k \in 1..Len(a.availability[D]) :
             LET slot == a.availability[D][k]
                 r == SlotCreate(court_id, D, slot)
             IN /\ slot.is_available => r.code = 201
                /\ ~slot.is_available => r.code = 409

\* court 1 holds today a Confirmed 10:00-11:00 and a cancelled booking:
\* availability flags the slot of 10:00 taken and those of 09:00 and 11:00
\* free, and the creates of the three are answered 409, 201 and 201
C30_TakenAndFreeSlots ==
  /\ \E i \in 1..Len(bookings) :
       /\ bookings[i].status = "Confirmada" /\ bookings[i].court_id = 1
       /\ bookings[i].booking_date = 1
       /\ bookings[i].start_time = 600 /\ bookings[i].end_time = 660
  /\ \E i \in 1..Len(bookings) :
       /\ bookings[i].status = "Cancelada" /\ bookings[i].court_id = 1
       /\ bookings[i].booking_date = 1
  /\ LET slots == get_court_availability(bookings, 1, Today, Today,
                                         "active").availability[Today]
     IN /\ slots[2].is_available /\ ~slots[3].is_available
        /\ slots[4].is_available
        /\ SlotCreate(1, Today, slots[2]).code = 201
        /\ SlotCreate(1, Today, slots[3]).code = 409
        /\ SlotCreate(1, Today, slots[4]).code = 201

====
